---- MODULE Spec2Model ----
(***************************************************************************)
(* Localization tools: the strict binary codec and packer                  *)
(* (tools/pack_common_texts.py), the heuristic record scanner              *)
(* (tools/convert_common_texts_to_tsv.py) and the table escaping of the    *)
(* XML exchange scripts (scripts/extract_tlk_xml.py, apply_tlk_tsv.py).    *)
(*                                                                         *)
(* Bytes are integers 0..255, texts are sequences of Unicode code points.  *)
(* A negative element -n of a text stands for n consecutive copies of the  *)
(* letter "a"; a negative element -n of a byte sequence stands for n       *)
(* copies of that letter's two UTF-16LE bytes.  Runs keep texts at the     *)
(* 16-bit length limit representable.                                      *)
(***************************************************************************)
EXTENDS Integers, Sequences, FiniteSets, TLC

VARIABLES
    \* scripts/extract_tlk_xml.py + scripts/apply_tlk_tsv.py: one field's trip
    esc_pc, esc_text, esc_field, esc_back,
    \* tools/convert_common_texts_to_tsv.py
    scan_pc, data, pos, out, ranges, rows,
    \* tools/pack_common_texts.py: disk names the files the runs may be given,
    \* st holds one invocation per process
    disk, st, tmp, dest

escVars == <<esc_pc, esc_text, esc_field, esc_back>>
scanVars == <<scan_pc, data, pos, out, ranges, rows>>
packVars == <<disk, st, tmp, dest>>
vars == <<esc_pc, esc_text, esc_field, esc_back,
          scan_pc, data, pos, out, ranges, rows,
          disk, st, tmp, dest>>

(***************************************************************************)
(* Bounds of the model.                                                    *)
(***************************************************************************)
MaxEscLen == 3
MaxChunks == 3
MaxRecs == 2
MaxRows == 2

(***************************************************************************)
(* Generic helpers.                                                        *)
(***************************************************************************)
\* the content of a path that holds no file: no byte is 256
NoFile == <<256>>

SeqsUpTo(S, n) == UNION {[1..k -> S] : k \in 0..n}

RECURSIVE Concat(_)
Concat(ss) == IF ss = <<>> THEN <<>> ELSE Head(ss) \o Concat(Tail(ss))

\* struct.pack("<H", v) / struct.pack("<I", v)
PackU16(v) == <<v % 256, (v \div 256) % 256>>
PackU32(v) == <<v % 256, (v \div 256) % 256, (v \div 65536) % 256, (v \div 16777216) % 256>>
\* struct.unpack at 0-based offset off
UnpackU16(b, off) == b[off + 1] + 256 * b[off + 2]
UnpackU32(b, off) == b[off + 1] + 256 * b[off + 2] + 65536 * b[off + 3] + 16777216 * b[off + 4]

\* Python str ordering: lexicographic by code point
RECURSIVE StrLess(_, _)
StrLess(a, b) ==
    IF b = <<>> THEN FALSE
    ELSE IF a = <<>> THEN TRUE
    ELSE IF Head(a) # Head(b) THEN Head(a) < Head(b)
    ELSE StrLess(Tail(a), Tail(b))

\* sorted(S) for a set of strings
RECURSIVE sorted(_)
sorted(S) ==
    IF S = {} THEN <<>>
    ELSE LET m == CHOOSE x \in S : \A y \in S \ {x} : StrLess(x, y)
         IN <<m>> \o sorted(S \ {m})

SeqToSet(s) == {s[i] : i \in 1..Len(s)}

(***************************************************************************)
(* Text encodings.                                                         *)
(***************************************************************************)
DecodeError == [ok |-> FALSE, val |-> <<>>]
Decoded(v) == [ok |-> TRUE, val |-> v]

\* bytes.decode("utf-16le"), strict: an odd tail or an unpaired surrogate fails
RECURSIVE Utf16leDecodeFrom(_, _, _)
Utf16leDecodeFrom(b, i, acc) ==
    IF i > Len(b) THEN Decoded(acc)
    ELSE IF i = Len(b) THEN DecodeError
    ELSE LET u == b[i] + 256 * b[i + 1] IN
         IF u >= 55296 /\ u <= 56319
         THEN IF i + 3 > Len(b) THEN DecodeError
              ELSE LET u2 == b[i + 2] + 256 * b[i + 3] IN
                   IF u2 >= 56320 /\ u2 <= 57343
                   THEN Utf16leDecodeFrom(b, i + 4,
                            Append(acc, 65536 + (u - 55296) * 1024 + (u2 - 56320)))
                   ELSE DecodeError
         ELSE IF u >= 56320 /\ u <= 57343 THEN DecodeError
         ELSE Utf16leDecodeFrom(b, i + 2, Append(acc, u))

Utf16leDecode(b) == Utf16leDecodeFrom(b, 1, <<>>)

\* one code point (or run) as UTF-16LE bytes
Utf16leUnit(c) ==
    IF c < 0 THEN <<c>>
    ELSE IF c < 65536 THEN PackU16(c)
    ELSE PackU16(55296 + ((c - 65536) \div 1024)) \o PackU16(56320 + ((c - 65536) % 1024))

\* str.encode("utf-16le")
Utf16leEncode(t) == Concat([i \in 1..Len(t) |-> Utf16leUnit(t[i])])

\* len() of a byte sequence that may hold runs
RECURSIVE ByteLen(_)
ByteLen(b) ==
    IF b = <<>> THEN 0
    ELSE (IF Head(b) < 0 THEN 2 * (0 - Head(b)) ELSE 1) + ByteLen(Tail(b))

IsCont(b, i) == i <= Len(b) /\ b[i] >= 128 /\ b[i] <= 191

\* bytes.decode("utf-8"), strict
RECURSIVE Utf8DecodeFrom(_, _, _)
Utf8DecodeFrom(b, i, acc) ==
    IF i > Len(b) THEN Decoded(acc)
    ELSE LET c == b[i] IN
         IF c < 128 THEN Utf8DecodeFrom(b, i + 1, Append(acc, c))
         ELSE IF c >= 194 /\ c <= 223
         THEN IF IsCont(b, i + 1)
              THEN Utf8DecodeFrom(b, i + 2, Append(acc, (c - 192) * 64 + (b[i + 1] - 128)))
              ELSE DecodeError
         ELSE IF c >= 224 /\ c <= 239
         THEN IF IsCont(b, i + 1) /\ IsCont(b, i + 2)
                 /\ (c = 224 => b[i + 1] >= 160)
                 /\ (c = 237 => b[i + 1] <= 159)
              THEN Utf8DecodeFrom(b, i + 3,
                       Append(acc, (c - 224) * 4096 + (b[i + 1] - 128) * 64 + (b[i + 2] - 128)))
              ELSE DecodeError
         ELSE IF c >= 240 /\ c <= 244
         THEN IF IsCont(b, i + 1) /\ IsCont(b, i + 2) /\ IsCont(b, i + 3)
                 /\ (c = 240 => b[i + 1] >= 144)
                 /\ (c = 244 => b[i + 1] <= 143)
              THEN Utf8DecodeFrom(b, i + 4,
                       Append(acc, (c - 240) * 262144 + (b[i + 1] - 128) * 4096
                                   + (b[i + 2] - 128) * 64 + (b[i + 3] - 128)))
              ELSE DecodeError
         ELSE DecodeError

Utf8Decode(b) == Utf8DecodeFrom(b, 1, <<>>)

(***************************************************************************)
(* Table escaping (scripts/extract_tlk_xml.py, scripts/apply_tlk_tsv.py).  *)
(***************************************************************************)
IsPrefixAt(s, i, old) ==
    /\ i + Len(old) - 1 <= Len(s)
    /\ \A k \in 1..Len(old) : s[i + k - 1] = old[k]

\* str.replace(old, new): left to right, non-overlapping
RECURSIVE ReplaceFrom(_, _, _, _, _)
ReplaceFrom(s, i, old, new, acc) ==
    IF i > Len(s) THEN acc
    ELSE IF IsPrefixAt(s, i, old) THEN ReplaceFrom(s, i + Len(old), old, new, acc \o new)
    ELSE ReplaceFrom(s, i + 1, old, new, Append(acc, s[i]))

Replace(s, old, new) == ReplaceFrom(s, 1, old, new, <<>>)

\* "\\" = 92, "\n" = 10, "\r" = 13, "\t" = 9, "n" = 110, "r" = 114, "t" = 116
escape_tsv(value) ==
    Replace(Replace(Replace(Replace(value,
        <<92>>, <<92, 92>>),
        <<10>>, <<92, 110>>),
        <<13>>, <<92, 114>>),
        <<9>>, <<92, 116>>)

unescape_tsv_field(value) ==
    Replace(Replace(Replace(Replace(value,
        <<92, 110>>, <<10>>),
        <<92, 114>>, <<13>>),
        <<92, 116>>, <<9>>),
        <<92, 92>>, <<92>>)

EscAlphabet == {92, 10, 13, 9, 110, 114, 116}

EscInit ==
    /\ esc_pc = "source"
    /\ esc_text \in SeqsUpTo(EscAlphabet, MaxEscLen)
    /\ esc_field = <<>>
    /\ esc_back = <<>>

EscIdle ==
    /\ esc_pc = "idle"
    /\ esc_text = <<>>
    /\ esc_field = <<>>
    /\ esc_back = <<>>

\* extract_tlk_xml.main: a cell is written escaped
ExportField ==
    /\ esc_pc = "source"
    /\ esc_field' = escape_tsv(esc_text)
    /\ esc_pc' = "exported"
    /\ UNCHANGED <<esc_text, esc_back>>
    /\ UNCHANGED <<scanVars, packVars>>

\* apply_tlk_tsv.main: the cell is read back unescaped
ImportField ==
    /\ esc_pc = "exported"
    /\ esc_back' = unescape_tsv_field(esc_field)
    /\ esc_pc' = "imported"
    /\ UNCHANGED <<esc_text, esc_field>>
    /\ UNCHANGED <<scanVars, packVars>>

(***************************************************************************)
(* Heuristic record scanner (tools/convert_common_texts_to_tsv.py).        *)
(***************************************************************************)
KeyLenLimit == 200
ValueUnitsLimit == 4000
Underscore == 95

\* ALLOWED = ascii_letters + digits + "_"
ALLOWED == (65..90) \cup (97..122) \cup (48..57) \cup {Underscore}

is_key_bytes(b) ==
    /\ b # <<>>
    /\ \A i \in 1..Len(b) : b[i] < 128
    /\ \E i \in 1..Len(b) : b[i] = Underscore
    /\ \A i \in 1..Len(b) : b[i] \in ALLOWED

\* str.isprintable() on the code points the model's inputs hold: ASCII other
\* than the controls, Cyrillic, and the astral letter of the test values
isprintable(c) ==
    \/ c >= 32 /\ c <= 126
    \/ c >= 1024 /\ c <= 1279
    \/ c = 128512

is_utf16_text(b) ==
    LET d == Utf16leDecode(b)
        s == d.val
        printable == Cardinality({i \in 1..Len(s) :
                         isprintable(s[i]) /\ s[i] \notin {11, 12}})
    IN /\ Len(b) % 2 = 0
       /\ d.ok
       /\ s # <<>>
       /\ 10 * printable >= 9 * Len(s)

\* data[lo:hi] with 0-based offsets
Slice(b, lo, hi) ==
    IF lo >= Len(b) \/ hi <= lo THEN <<>>
    ELSE SubSeq(b, lo + 1, IF hi > Len(b) THEN Len(b) ELSE hi)

\* an advance that counts the value's units as bytes
AcceptedNextUnits(p, L, S) == p + 2 + L + 2 + S

\* the position the loop continues from after a record accepted at p
AcceptedNext(p, L, S) == p + 2 + L + 2 + S * 2

\* one iteration of the while loop of scan_records at offset p
ScanAt(b, p) ==
    LET n == Len(b)
        L == UnpackU16(b, p)
        keyb == Slice(b, p + 2, p + 2 + L)
        S == UnpackU16(b, p + 2 + L)
        valb == Slice(b, p + 2 + L + 2, p + 2 + L + 2 + S * 2)
    IN IF /\ 0 < L /\ L < KeyLenLimit /\ p + 2 + L + 2 <= n
          /\ is_key_bytes(keyb)
          /\ 0 < S /\ S < ValueUnitsLimit /\ p + 2 + L + 2 + S * 2 <= n
          /\ is_utf16_text(valb)
       THEN [accept |-> TRUE, key |-> keyb, val |-> Utf16leDecode(valb).val,
             next |-> AcceptedNext(p, L, S), end |-> p + 2 + L + 2 + S * 2]
       ELSE [accept |-> FALSE, key |-> <<>>, val |-> <<>>, next |-> p + 1, end |-> p]

\* for k, v in recs: if k not in dedup: dedup[k] = v   (as the list of items)
RECURSIVE DedupFrom(_, _, _)
DedupFrom(recs, i, acc) ==
    IF i > Len(recs) THEN acc
    ELSE IF \E j \in 1..Len(acc) : acc[j].key = recs[i].key
         THEN DedupFrom(recs, i + 1, acc)
         ELSE DedupFrom(recs, i + 1, Append(acc, recs[i]))

\* a deduplication in which a later occurrence overwrites the value
RECURSIVE DedupLastFrom(_, _, _)
DedupLastFrom(recs, i, acc) ==
    IF i > Len(recs) THEN acc
    ELSE IF \E j \in 1..Len(acc) : acc[j].key = recs[i].key
         THEN DedupLastFrom(recs, i + 1,
                  [j \in 1..Len(acc) |-> IF acc[j].key = recs[i].key THEN recs[i] ELSE acc[j]])
         ELSE DedupLastFrom(recs, i + 1, Append(acc, recs[i]))

DedupLastWins(recs) == DedupLastFrom(recs, 1, <<>>)

Dedup(recs) == DedupFrom(recs, 1, <<>>)

DedupValue(dedup, k) == (CHOOSE j \in 1..Len(dedup) : dedup[j].key = k)

TsvHeader == <<"id", "flags", "source", "translation">>

\* the rows main writes: the header, then one row per key of sorted(dedup.keys())
EmittedRows(recs) ==
    LET dedup == Dedup(recs)
        keys == sorted({dedup[j].key : j \in 1..Len(dedup)})
    IN <<TsvHeader>> \o
       [i \in 1..Len(keys) |-> <<keys[i], <<49>>, dedup[DedupValue(dedup, keys[i])].val, <<>>>>]

Rec(key, valb) == PackU16(Len(key)) \o key \o PackU16(Len(valb) \div 2) \o valb

\* pieces the scanned blobs are built from: records the predicates accept
\* (two keys, one key with two values, a ten-unit value with one control
\* character), records one predicate rejects, and a padding byte
ScanChunks ==
    { Rec(<<97, 95>>, <<65, 0>>),
      Rec(<<95>>, <<66, 0>>),
      Rec(<<95>>, <<65, 0>>),
      Rec(<<97, 98>>, <<65, 0>>),
      Rec(<<45, 95>>, <<65, 0>>),
      Rec(<<95>>, <<0, 216>>),
      Rec(<<95>>, <<65, 0, 10, 0>>),
      Rec(<<95>>, <<65, 0, 65, 0, 65, 0, 65, 0, 65, 0, 65, 0, 65, 0, 65, 0, 65, 0, 10, 0>>),
      <<0>> }

ScanInit ==
    /\ scan_pc = "scan"
    /\ data \in {Concat(cs) : cs \in SeqsUpTo(ScanChunks, MaxChunks)}
    /\ pos = 0
    /\ out = <<>>
    /\ ranges = <<>>
    /\ rows = <<>>

ScanIdle ==
    /\ scan_pc = "idle"
    /\ data = <<>>
    /\ pos = 0
    /\ out = <<>>
    /\ ranges = <<>>
    /\ rows = <<>>

\* scan_records: one iteration of "while pos + 4 < n"
ScanStep ==
    /\ scan_pc = "scan"
    /\ pos + 4 < Len(data)
    /\ LET r == ScanAt(data, pos) IN
       /\ pos' = r.next
       /\ out' = IF r.accept THEN Append(out, [key |-> r.key, val |-> r.val]) ELSE out
       /\ ranges' = IF r.accept THEN Append(ranges, <<pos, r.end>>) ELSE ranges
    /\ UNCHANGED <<scan_pc, data, rows>>
    /\ UNCHANGED <<escVars, packVars>>

\* main: the loop has ended; deduplicate and write the table
EmitRows ==
    /\ scan_pc = "scan"
    /\ ~(pos + 4 < Len(data))
    /\ rows' = EmittedRows(out)
    /\ scan_pc' = "done"
    /\ UNCHANGED <<data, pos, out, ranges>>
    /\ UNCHANGED <<escVars, packVars>>

(***************************************************************************)
(* Strict codec and packer (tools/pack_common_texts.py).                   *)
(***************************************************************************)
U16Max == 65535

\* read_exact(handle, size) with the handle at 0-based offset p
read_exact(b, p, size) ==
    [ok |-> p + size <= Len(b), bytes |-> Slice(b, p, p + size), pos |-> p + size]

ParseFailed(why) == [ok |-> FALSE, err |-> why, version |-> 0, entries |-> <<>>]

\* a decode that never looks past the last record
NoTrailingCheck(b, p, version, acc) ==
    [ok |-> TRUE, err |-> "", version |-> version, entries |-> acc]

\* handle.read(1) after the last record
TrailingCheck(b, p, version, acc) ==
    IF p < Len(b)
    THEN ParseFailed("Trailing bytes detected after parsing all entries")
    ELSE [ok |-> TRUE, err |-> "", version |-> version, entries |-> acc]

\* the body of "for _ in range(count)", then the trailing check
RECURSIVE ParseEntries(_, _, _, _, _)
ParseEntries(b, p, remaining, version, acc) ==
    IF remaining = 0 THEN TrailingCheck(b, p, version, acc)
    ELSE
    LET r1 == read_exact(b, p, 2) IN
    IF ~r1.ok THEN ParseFailed("Unexpected end of file while reading binary data")
    ELSE
    LET r2 == read_exact(b, r1.pos, UnpackU16(r1.bytes, 0)) IN
    IF ~r2.ok THEN ParseFailed("Unexpected end of file while reading binary data")
    ELSE
    LET key == Utf8Decode(r2.bytes) IN
    IF ~key.ok THEN ParseFailed("Failed to decode key as UTF-8")
    ELSE
    LET r3 == read_exact(b, r2.pos, 2) IN
    IF ~r3.ok THEN ParseFailed("Unexpected end of file while reading binary data")
    ELSE
    LET r4 == read_exact(b, r3.pos, UnpackU16(r3.bytes, 0) * 2) IN
    IF ~r4.ok THEN ParseFailed("Unexpected end of file while reading binary data")
    ELSE
    LET value == Utf16leDecode(r4.bytes) IN
    IF ~value.ok THEN ParseFailed("Failed to decode value as UTF-16LE")
    ELSE ParseEntries(b, r4.pos, remaining - 1, version,
             Append(acc, [key |-> key.val, value |-> value.val, key_bytes |-> r2.bytes]))

parse_binary(b) ==
    LET header == read_exact(b, 0, 8) IN
    IF ~header.ok THEN ParseFailed("Unexpected end of file while reading binary data")
    ELSE ParseEntries(b, 8, UnpackU32(header.bytes, 4), UnpackU32(header.bytes, 0), <<>>)

TsvFailed(why, row, ncols) ==
    [ok |-> FALSE, err |-> why, row |-> row, ncols |-> ncols,
     tsv_rows |-> 0, mapping |-> <<>>]

\* mapping[key] = (source, translation)
MapPut(m, key, v) == [k \in DOMAIN m \cup {key} |-> IF k = key THEN v ELSE m[k]]

\* whether a data row of this many fields is refused
RowRefused(ncols) == ncols < 4

\* "for row in reader": t holds the rows csv.reader yields, the header first
RECURSIVE ReadRows(_, _, _, _)
ReadRows(t, i, tsv_rows, mapping) ==
    IF i > Len(t) THEN [ok |-> TRUE, err |-> "", row |-> 0, ncols |-> 0,
                        tsv_rows |-> tsv_rows, mapping |-> mapping]
    ELSE IF RowRefused(Len(t[i]))
         THEN TsvFailed("TSV row has too few columns (expected 4)", tsv_rows + 1 + 1, Len(t[i]))
         ELSE ReadRows(t, i + 1, tsv_rows + 1, MapPut(mapping, t[i][1], <<t[i][3], t[i][4]>>))

read_tsv(t) ==
    IF t = <<>> THEN TsvFailed("TSV is empty", 0, 0)
    ELSE IF Len(t[1]) < 4 THEN TsvFailed("TSV header must have 4 columns", 0, 0)
    ELSE IF SubSeq(t[1], 1, 4) # TsvHeader THEN TsvFailed("TSV header must be: id flags source translation", 0, 0)
    ELSE ReadRows(t, 2, 0, <<>>)

\* PLACEHOLDER_PATTERN = %(?:%|[sdifux]); a token is named by its second character
Percent == 37
PlaceholderKinds == {37, 115, 100, 105, 102, 117, 120}

\* PLACEHOLDER_PATTERN.findall(text): leftmost, non-overlapping
RECURSIVE FindallFrom(_, _, _)
FindallFrom(text, i, acc) ==
    IF i > Len(text) THEN acc
    ELSE IF text[i] = Percent /\ i < Len(text) /\ text[i + 1] \in PlaceholderKinds
         THEN FindallFrom(text, i + 2, Append(acc, text[i + 1]))
         ELSE FindallFrom(text, i + 1, acc)

\* Counter(findall(text))
placeholder_counts(text) ==
    LET toks == FindallFrom(text, 1, <<>>)
    IN [k \in PlaceholderKinds |-> Cardinality({j \in 1..Len(toks) : toks[j] = k})]

\* str.count("\n")
CountNewlines(text) == Cardinality({i \in 1..Len(text) : text[i] = 10})

\* a validation that compares the placeholders only
EntryErrorsNoNewlines(strict, key, source, translation) ==
    IF strict /\ placeholder_counts(source) # placeholder_counts(translation)
    THEN <<key>> ELSE <<>>

\* lines 166-172: what one translated entry adds to placeholder_errors
EntryErrors(strict, key, source, translation) ==
    IF ~strict THEN <<>>
    ELSE (IF placeholder_counts(source) # placeholder_counts(translation) THEN <<key>> ELSE <<>>)
         \o (IF CountNewlines(source) # CountNewlines(translation) THEN <<key>> ELSE <<>>)
\* an empty translation always counted as a replacement
EmptyTranslationReplaces(s, entry) ==
    [s EXCEPT !.new_values = Append(@, IF s.args.allow_empty THEN <<>> ELSE entry.value),
              !.replaced_count = @ + 1]

\* lines 157-164: the new value and the counter an empty translation moves
EmptyTranslation(s, entry) ==
    IF s.args.allow_empty
    THEN [s EXCEPT !.new_values = Append(@, <<>>), !.replaced_count = @ + 1]
    ELSE [s EXCEPT !.new_values = Append(@, entry.value), !.skipped_empty_count = @ + 1]

\* lines 149-175: the body of "for entry in entries" for entries[idx]
MergeEntry(s) ==
    LET entry == s.entries[s.idx]
        t == [s EXCEPT !.idx = @ + 1]
    IN IF entry.key \notin DOMAIN s.tsv_mapping
       THEN [t EXCEPT !.missing_keys_in_tsv = @ + 1, !.new_values = Append(@, entry.value)]
       ELSE LET source == s.tsv_mapping[entry.key][1]
                translation == s.tsv_mapping[entry.key][2]
            IN IF translation = <<>> THEN EmptyTranslation(t, entry)
               ELSE [t EXCEPT
                       !.placeholder_errors =
                           @ \o EntryErrors(s.args.strict_placeholders, entry.key, source, translation),
                       !.new_values = Append(@, translation),
                       !.replaced_count = @ + 1]

\* line 178: unique_keys = sorted(set(placeholder_errors))
UniqueKeys(errors) == sorted(SeqToSet(errors))

\* lines 177-182: abort on recorded mismatches, else go on to write
AfterMerge(s) ==
    IF s.args.strict_placeholders /\ s.placeholder_errors # <<>>
    THEN [s EXCEPT !.pc = "placeholder_fail", !.exit_code = 1,
                   !.stdout = UniqueKeys(s.placeholder_errors)]
    ELSE [s EXCEPT !.pc = "open"]

\* line 192: the header
HeaderBytes(s) == PackU32(s.version) \o PackU32(Len(s.entries))

\* a length taken from the text instead of its encoding
ValueUnitsFromText(value, value_bytes) == Len(value)

\* line 197: the length written before the value bytes
ValueUnits(value, value_bytes) == ByteLen(value_bytes) \div 2

\* lines 194-198 for entries[i]: the bytes handed to the file before
\* struct.pack raises (if it does), and the whole record otherwise
EncodeEntry(entry, value) ==
    LET value_bytes == Utf16leEncode(value)
        units == ValueUnits(value, value_bytes)
        head == PackU16(Len(entry.key_bytes)) \o entry.key_bytes
    IN IF units > U16Max
       THEN [struct_error |-> TRUE, bytes |-> head]
       ELSE [struct_error |-> FALSE, bytes |-> head \o PackU16(units) \o value_bytes]

(***************************************************************************)
(* Files the packer is run on.                                             *)
(***************************************************************************)
\* records of the strict format: two well-formed ones (an ASCII key with a
\* placeholder value, a two-byte UTF-8 key with an astral value), one whose
\* key is not UTF-8, one whose value is an unpaired surrogate
RecChunks ==
    { Rec(<<97>>, <<37, 0, 115, 0>>),
      Rec(<<209, 151>>, <<61, 216, 0, 222>>),
      Rec(<<255>>, <<65, 0>>),
      Rec(<<97>>, <<0, 216>>) }

FramedFile(count, chunks) == PackU32(258) \o PackU32(count) \o Concat(chunks)

\* files of version 258: every prefix of a header-plus-records file, and the file with one more byte
BinFiles ==
    UNION { LET full == FramedFile(count, chunks)
            IN {SubSeq(full, 1, n) : n \in 0..Len(full)} \cup {full \o <<0>>}
          : count \in 0..(MaxRecs + 1), chunks \in SeqsUpTo(RecChunks, MaxRecs) }

\* data rows: id, flags, source, translation
RowPool ==
    { <<<<97>>, <<49>>, <<37, 115>>, <<37, 115>>>>,
      <<<<97>>, <<49>>, <<37, 115, 10>>, <<120>>>>,
      <<<<97>>, <<49>>, <<37, 115>>, <<>>>>,
      <<<<1111>>, <<49>>, <<>>, <<-65536>>>>,
      <<<<1111>>, <<49>>, <<>>, <<-65535>>>>,
      <<<<1111>>, <<49>>, <<10>>, <<121>>>>,
      <<<<1111>>, <<49>>, <<37, 115, 37, 115>>, <<37, 115>>>>,
      <<<<1111>>, <<49>>, <<37, 37, 115>>, <<37, 115>>>>,
      <<<<97>>, <<49>>, <<37, 115>>>>,
      <<<<97>>, <<49>>, <<37, 115>>, <<37, 115>>, <<33>>>> }

BadHeaders ==
    { <<"id", "flags", "src", "translation">>,
      <<"id", "flags", "source">> }

TsvFiles ==
    {<<>>} \cup {<<h>> : h \in BadHeaders}
    \cup {<<TsvHeader>> \o rs : rs \in SeqsUpTo(RowPool, MaxRows)}

AllArgs == [allow_empty : BOOLEAN, strict_placeholders : BOOLEAN]

\* a destination written by an earlier run
OldDest == PackU32(258) \o PackU32(0)

StartState ==
    [pc |-> "start", input |-> <<>>, tsv |-> <<>>,
     args |-> [allow_empty |-> FALSE, strict_placeholders |-> FALSE],
     version |-> 0, entries |-> <<>>, tsv_rows |-> 0, tsv_mapping |-> <<>>,
     idx |-> 1, missing_keys_in_tsv |-> 0, replaced_count |-> 0,
     skipped_empty_count |-> 0, placeholder_errors |-> <<>>, new_values |-> <<>>,
     tmp_name |-> FALSE, exit_code |-> -1, stderr |-> "", err_row |-> 0,
     stdout |-> <<>>]

\* one invocation, any input file, any table, any options
PackInit ==
    /\ disk = "any"
    /\ st = [p \in {1} |-> StartState]
    /\ tmp = [p \in {1} |-> NoFile]
    /\ dest \in {NoFile, OldDest}

\* the files and options of two invocations started on the same --output
ConcDisk ==
    [bin |-> {FramedFile(1, <<Rec(<<97>>, <<37, 0, 115, 0>>)>>),
              FramedFile(1, <<Rec(<<209, 151>>, <<61, 216, 0, 222>>)>>)},
     tsv |-> {<<TsvHeader>>,
              <<TsvHeader, <<<<97>>, <<49>>, <<37, 115>>, <<120>>>>,
                           <<<<1111>>, <<49>>, <<>>, <<-65536>>>>>>},
     args |-> {[allow_empty |-> FALSE, strict_placeholders |-> FALSE]}]

\* what the name held by disk stands for
Files ==
    CASE disk = "any" -> [bin |-> BinFiles, tsv |-> TsvFiles, args |-> AllArgs]
      [] disk = "pair" -> ConcDisk
      [] OTHER -> [bin |-> {}, tsv |-> {}, args |-> {}]

ConcInit ==
    /\ disk = "pair"
    /\ st = [p \in {1, 2} |-> StartState]
    /\ tmp = [p \in {1, 2} |-> NoFile]
    /\ dest \in {NoFile, OldDest}

PackIdle ==
    /\ disk = "none"
    /\ st = <<>>
    /\ tmp = <<>>
    /\ dest = NoFile

(***************************************************************************)
(* main of tools/pack_common_texts.py, invocation p.                       *)
(***************************************************************************)
\* lines 130-134
ParseBinaryStep(p) ==
    /\ st[p].pc = "start"
    /\ \E f \in Files.bin :
         LET r == parse_binary(f) IN
         st' = [st EXCEPT ![p] =
                  IF r.ok
                  THEN [@ EXCEPT !.pc = "parsed", !.input = f,
                                 !.version = r.version, !.entries = r.entries]
                  ELSE [@ EXCEPT !.pc = "parse_error", !.input = f,
                                 !.exit_code = 1, !.stderr = r.err]]
    /\ UNCHANGED <<disk, tmp, dest>>
    /\ UNCHANGED <<escVars, scanVars>>

\* lines 136-147
ReadTsvStep(p) ==
    /\ st[p].pc = "parsed"
    /\ \E t \in Files.tsv, a \in Files.args :
         LET r == read_tsv(t) IN
         st' = [st EXCEPT ![p] =
                  IF r.ok
                  THEN [@ EXCEPT !.pc = "merge", !.tsv = t, !.args = a,
                                 !.tsv_rows = r.tsv_rows, !.tsv_mapping = r.mapping]
                  ELSE [@ EXCEPT !.pc = "tsv_error", !.tsv = t, !.args = a,
                                 !.exit_code = 1, !.stderr = r.err, !.err_row = r.row]]
    /\ UNCHANGED <<disk, tmp, dest>>
    /\ UNCHANGED <<escVars, scanVars>>

\* lines 149-175, one entry
MergeStep(p) ==
    /\ st[p].pc = "merge"
    /\ st[p].idx <= Len(st[p].entries)
    /\ st' = [st EXCEPT ![p] = MergeEntry(@)]
    /\ UNCHANGED <<disk, tmp, dest>>
    /\ UNCHANGED <<escVars, scanVars>>

\* lines 177-182
FinishMerge(p) ==
    /\ st[p].pc = "merge"
    /\ st[p].idx > Len(st[p].entries)
    /\ st' = [st EXCEPT ![p] = AfterMerge(@)]
    /\ UNCHANGED <<disk, tmp, dest>>
    /\ UNCHANGED <<escVars, scanVars>>

\* lines 184-191: mkdir, then the temporary file is created beside the output
OpenTemp(p) ==
    /\ st[p].pc = "open"
    /\ \E outcome \in {"ok", "mkdir_oserror", "create_oserror"} :
         CASE outcome = "ok" ->
                /\ st' = [st EXCEPT ![p].pc = "header", ![p].tmp_name = TRUE]
                /\ tmp' = [tmp EXCEPT ![p] = <<>>]
           [] outcome = "mkdir_oserror" ->
                /\ st' = [st EXCEPT ![p].pc = "crashed", ![p].exit_code = 1,
                                    ![p].stderr = "Traceback: OSError"]
                /\ UNCHANGED tmp
           [] outcome = "create_oserror" ->
                /\ st' = [st EXCEPT ![p].pc = "except"]
                /\ UNCHANGED tmp
    /\ UNCHANGED <<disk, dest>>
    /\ UNCHANGED <<escVars, scanVars>>

\* line 192
WriteHeader(p) ==
    /\ st[p].pc = "header"
    /\ \E io_ok \in BOOLEAN :
         IF io_ok
         THEN /\ tmp' = [tmp EXCEPT ![p] = @ \o HeaderBytes(st[p])]
              /\ st' = [st EXCEPT ![p].pc = "write", ![p].idx = 1]
         ELSE /\ st' = [st EXCEPT ![p].pc = "except"]
              /\ UNCHANGED tmp
    /\ UNCHANGED <<disk, dest>>
    /\ UNCHANGED <<escVars, scanVars>>

\* lines 193-198, one entry: the writes succeed, or one raises OSError, or
\* struct.pack raises struct.error, which no handler of main catches
WriteEntry(p) ==
    /\ st[p].pc = "write"
    /\ st[p].idx <= Len(st[p].entries)
    /\ LET e == EncodeEntry(st[p].entries[st[p].idx], st[p].new_values[st[p].idx]) IN
       \E io_ok \in BOOLEAN :
         IF ~io_ok
         THEN /\ st' = [st EXCEPT ![p].pc = "except"]
              /\ UNCHANGED tmp
         ELSE IF e.struct_error
         THEN /\ tmp' = [tmp EXCEPT ![p] = @ \o e.bytes]
              /\ st' = [st EXCEPT ![p].pc = "crashed", ![p].exit_code = 1,
                                  ![p].stderr = "Traceback: struct.error"]
         ELSE /\ tmp' = [tmp EXCEPT ![p] = @ \o e.bytes]
              /\ st' = [st EXCEPT ![p].idx = @ + 1]
    /\ UNCHANGED <<disk, dest>>
    /\ UNCHANGED <<escVars, scanVars>>

\* the end of the with block: the file is flushed and closed
CloseTemp(p) ==
    /\ st[p].pc = "write"
    /\ st[p].idx > Len(st[p].entries)
    /\ \E io_ok \in BOOLEAN :
         st' = [st EXCEPT ![p].pc = IF io_ok THEN "replace" ELSE "except"]
    /\ UNCHANGED <<disk, tmp, dest>>
    /\ UNCHANGED <<escVars, scanVars>>

\* line 199: os.replace(tmp_name, output_path), then lines 206-212
ReplaceStep(p) ==
    /\ st[p].pc = "replace"
    /\ \E io_ok \in BOOLEAN :
         IF io_ok
         THEN /\ dest' = tmp[p]
              /\ tmp' = [tmp EXCEPT ![p] = NoFile]
              /\ st' = [st EXCEPT ![p].pc = "done", ![p].exit_code = 0]
         ELSE /\ st' = [st EXCEPT ![p].pc = "except"]
              /\ UNCHANGED <<tmp, dest>>
    /\ UNCHANGED disk
    /\ UNCHANGED <<escVars, scanVars>>

\* a handler that reports the failure and leaves the temporary file
ExceptOSErrorKeepsTemp(p) ==
    /\ st[p].pc = "except"
    /\ st' = [st EXCEPT ![p].pc = "io_failed", ![p].exit_code = 1,
                        ![p].stderr = "Failed to write output binary"]
    /\ UNCHANGED <<disk, tmp, dest>>
    /\ UNCHANGED <<escVars, scanVars>>

\* lines 200-204
ExceptOSError(p) ==
    /\ st[p].pc = "except"
    /\ tmp' = [tmp EXCEPT ![p] = IF st[p].tmp_name /\ @ # NoFile THEN NoFile ELSE @]
    /\ st' = [st EXCEPT ![p].pc = "io_failed", ![p].exit_code = 1,
                        ![p].stderr = "Failed to write output binary"]
    /\ UNCHANGED <<disk, dest>>
    /\ UNCHANGED <<escVars, scanVars>>

(***************************************************************************)
(* Specifications.                                                         *)
(***************************************************************************)
PackNext ==
    \/ \E p \in DOMAIN st : ParseBinaryStep(p)
    \/ \E p \in DOMAIN st : ReadTsvStep(p)
    \/ \E p \in DOMAIN st : MergeStep(p)
    \/ \E p \in DOMAIN st : FinishMerge(p)
    \/ \E p \in DOMAIN st : OpenTemp(p)
    \/ \E p \in DOMAIN st : WriteHeader(p)
    \/ \E p \in DOMAIN st : WriteEntry(p)
    \/ \E p \in DOMAIN st : CloseTemp(p)
    \/ \E p \in DOMAIN st : ReplaceStep(p)
    \/ \E p \in DOMAIN st : ExceptOSError(p)

ScanNext == ScanStep \/ EmitRows

EscNext == ExportField \/ ImportField

Init == EscIdle /\ ScanIdle /\ PackInit
Next == PackNext
\* one invocation of the packer
Spec == Init /\ [][Next]_vars

\* two invocations of the packer writing the same destination
InitConc == EscIdle /\ ScanIdle /\ ConcInit
SpecConc == InitConc /\ [][PackNext]_vars

\* the scanner tool
InitScan == EscIdle /\ ScanInit /\ PackIdle
SpecScan == InitScan /\ [][ScanNext]_vars

\* one table cell exported and imported by the XML scripts
InitEsc == EscInit /\ ScanIdle /\ PackIdle
SpecEsc == InitEsc /\ [][EscNext]_vars

(***************************************************************************)
(* Properties of the strict codec and the packer.                          *)
(***************************************************************************)
Invocations == DOMAIN st

\* the key of no entry has a row in the table
NothingMapped(s) == \A i \in 1..Len(s.entries) : s.entries[i].key \notin DOMAIN s.tsv_mapping

\* the offset after k records laid out from offset off, or -1 if the bytes end first
RECURSIVE FrameEnd(_, _, _)
FrameEnd(b, off, k) ==
    IF k = 0 THEN off
    ELSE IF off + 2 > Len(b) THEN -1
    ELSE LET afterKey == off + 2 + UnpackU16(b, off) IN
         IF afterKey + 2 > Len(b) THEN -1
         ELSE LET afterValue == afterKey + 2 + 2 * UnpackU16(b, afterKey) IN
              IF afterValue > Len(b) THEN -1
              ELSE FrameEnd(b, afterValue, k - 1)

\* the 8-byte header, then exactly count complete records, then nothing
ExactlyFramed(b) == Len(b) >= 8 /\ FrameEnd(b, 8, UnpackU32(b, 4)) = Len(b)

\* C1: when parse_binary accepts the input and the table maps none of the
\* keys, the bytes written (the temporary file once closed, the destination
\* once replaced) are the input's bytes, and the count field written is the
\* number of decoded entries.
C1_RoundTrip ==
    \A p \in Invocations :
      LET s == st[p]
          written == IF s.pc = "done" THEN dest ELSE tmp[p]
      IN (s.pc \in {"replace", "done"} /\ NothingMapped(s))
         => /\ written = s.input
            /\ UnpackU32(written, 4) = Len(s.entries)

C1_Witness ==
    \E p \in Invocations :
      /\ st[p].pc = "done"
      /\ NothingMapped(st[p])
      /\ Len(st[p].entries) = 2
      /\ \E i \in 1..2 : st[p].entries[i].value = <<128512>>
      /\ dest = st[p].input

\* C2: an input that is not exactly the header followed by count complete
\* records (a declared length past the end, a count above the records
\* present, a byte after the last record) makes parse_binary fail: the run
\* ends with exit code 1 and holds no entry.
C2_StrictFraming ==
    \A p \in Invocations :
      (st[p].pc # "start" /\ ~ExactlyFramed(st[p].input))
      => /\ st[p].pc = "parse_error"
         /\ st[p].entries = <<>>
         /\ st[p].exit_code = 1
         /\ st[p].stderr # ""

\* a count of 2 over one complete record followed by a cut second record
C2_Witness ==
    \E p \in Invocations :
      /\ st[p].pc = "parse_error"
      /\ Len(st[p].input) > 8 + 9
      /\ UnpackU32(st[p].input, 4) = 2
      /\ FrameEnd(st[p].input, 8, 1) = 17
      /\ FrameEnd(st[p].input, 8, 2) = -1

\* placeholder tokens, counted without a scan: a "%" starts a token when a
\* token character follows it and an even number of "%" stand directly before it
PercentsBefore(t, i) ==
    LET stop == {j \in 0..(i - 1) : j = 0 \/ t[j] # 37}
        last == CHOOSE j \in stop : \A k \in stop : k <= j
    IN i - 1 - last

TokenAt(t, i, kind) ==
    /\ t[i] = 37 /\ i < Len(t) /\ t[i + 1] = kind
    /\ PercentsBefore(t, i) % 2 = 0

TokenBag(t) ==
    [kind \in {37, 115, 100, 105, 102, 117, 120} |->
        Cardinality({i \in 1..Len(t) : TokenAt(t, i, kind)})]

Newlines(t) == Len(SelectSeq(t, LAMBDA c : c = 10))

\* the keys of the entries whose non-empty translation differs from its
\* source in placeholders or in newlines
Offending(s) ==
    { s.entries[i].key : i \in
        { i \in 1..Len(s.entries) :
            /\ s.entries[i].key \in DOMAIN s.tsv_mapping
            /\ LET source == s.tsv_mapping[s.entries[i].key][1]
                   translation == s.tsv_mapping[s.entries[i].key][2]
               IN /\ translation # <<>>
                  /\ \/ TokenBag(source) # TokenBag(translation)
                     \/ Newlines(source) # Newlines(translation) } }

EachOnce(list, S) == Len(list) = Cardinality(S) /\ SeqToSet(list) = S

\* C3: with strict_placeholders, once every entry is merged and at least
\* one is offending, the next step of the run ends it with exit code 1 and
\* the list of the offending keys, each once; no temporary file exists, the
\* destination is as it was, and the run does nothing afterwards.
C3_AllOrNothing ==
    [][\A p \in Invocations :
         LET s == st[p]
             s2 == st'[p]
         IN /\ ( /\ s.pc = "merge" /\ s.idx > Len(s.entries)
                 /\ s.args.strict_placeholders /\ Offending(s) # {}
                 /\ s2 # s )
               => /\ s2.pc = "placeholder_fail"
                  /\ s2.exit_code = 1
                  /\ EachOnce(s2.stdout, Offending(s))
                  /\ ~s2.tmp_name
                  /\ tmp'[p] = NoFile
                  /\ dest' = dest
            /\ s.pc = "placeholder_fail"
               => (s2 = s /\ tmp'[p] = NoFile /\ dest' = dest)]_vars

\* two entries, one offending and one not, over an existing destination
C3_Witness ==
    \E p \in Invocations :
      /\ st[p].pc = "placeholder_fail"
      /\ Len(st[p].entries) = 2
      /\ Cardinality(Offending(st[p])) = 1
      /\ st[p].replaced_count = 1
      /\ st[p].missing_keys_in_tsv = 1
      /\ st[p].stdout = <<<<1111>>>>
      /\ tmp[p] = NoFile
      /\ dest = OldDest

\* str.encode("utf-16le") length in code units
RECURSIVE Utf16Units(_)
Utf16Units(t) ==
    IF t = <<>> THEN 0
    ELSE (IF Head(t) < 0 THEN 0 - Head(t) ELSE IF Head(t) < 65536 THEN 1 ELSE 2)
         + Utf16Units(Tail(t))

\* the whole file an invocation means to write
FullOutput(s) ==
    PackU32(s.version) \o PackU32(Len(s.entries)) \o
    Concat([i \in 1..Len(s.entries) |->
              PackU16(Len(s.entries[i].key_bytes)) \o s.entries[i].key_bytes
              \o PackU16(Utf16Units(s.new_values[i])) \o Utf16leEncode(s.new_values[i])])

\* C4: whatever the interleaving of the invocations and wherever an I/O
\* call fails, the destination is absent, its earlier content, or the whole
\* output of one invocation that finished; an invocation that ended in the
\* I/O failure handler has no temporary file left.
C4_AtomicWriter ==
    /\ \/ dest \in {NoFile, OldDest}
       \/ \E p \in Invocations : st[p].pc = "done" /\ dest = FullOutput(st[p])
    /\ \A p \in Invocations : st[p].pc = "io_failed" => tmp[p] = NoFile

\* one invocation replaced the destination, the other failed after writing
C4_Witness ==
    \E p, q \in Invocations :
      /\ p # q
      /\ st[p].pc = "done" /\ dest = FullOutput(st[p]) /\ dest # OldDest
      /\ st[q].pc = "io_failed" /\ st[q].tmp_name /\ st[q].idx > 1
      /\ FullOutput(st[q]) # dest
      /\ tmp[q] = NoFile

\* a value to be written is longer than 65535 UTF-16 code units
TooLong(s) ==
    /\ Len(s.new_values) = Len(s.entries)
    /\ \E i \in 1..Len(s.new_values) : Utf16Units(s.new_values[i]) > 65535

\* C5: a run that has a value of more than 65535 code units to write never
\* succeeds, and ends with exit code 1, no temporary file left and the
\* destination as it was.
C5_ValueTooLong ==
    \A p \in Invocations :
      (TooLong(st[p]) /\ st[p].pc \in {"done", "io_failed", "crashed"})
      => /\ st[p].pc # "done"
         /\ st[p].exit_code = 1
         /\ tmp[p] = NoFile
         /\ dest \in {NoFile, OldDest}

\* C6: merging an entry whose key maps to an empty translation leaves the
\* original value and adds one to skipped_empty (allow_empty off), or puts
\* the empty string and adds one to replaced (allow_empty on); the other
\* counter, the entries (key_bytes, order) and placeholder_errors do not move.
C6_EmptyTranslationPolicy ==
    [][\A p \in Invocations :
         LET s == st[p]
             s2 == st'[p]
         IN ( /\ s.pc = "merge" /\ s.idx <= Len(s.entries) /\ s2 # s
              /\ s.entries[s.idx].key \in DOMAIN s.tsv_mapping
              /\ s.tsv_mapping[s.entries[s.idx].key][2] = <<>> )
            => /\ Len(s2.new_values) = s.idx
               /\ SubSeq(s2.new_values, 1, s.idx - 1) = s.new_values
               /\ IF s.args.allow_empty
                  THEN /\ s2.new_values[s.idx] = <<>>
                       /\ s2.replaced_count = s.replaced_count + 1
                       /\ s2.skipped_empty_count = s.skipped_empty_count
                  ELSE /\ s2.new_values[s.idx] = s.entries[s.idx].value
                       /\ s2.skipped_empty_count = s.skipped_empty_count + 1
                       /\ s2.replaced_count = s.replaced_count
               /\ s2.missing_keys_in_tsv = s.missing_keys_in_tsv
               /\ s2.entries = s.entries
               /\ s2.placeholder_errors = s.placeholder_errors]_vars

\* strict validation is on, the source has a placeholder, the translation is empty
C6_Witness ==
    \E p \in Invocations :
      /\ st[p].pc = "done"
      /\ st[p].args.strict_placeholders /\ ~st[p].args.allow_empty
      /\ st[p].skipped_empty_count = 1
      /\ st[p].replaced_count = 0
      /\ st[p].tsv_mapping[<<97>>] = <<<<37, 115>>, <<>>>>
      /\ st[p].new_values[1] = <<37, 115>>

\* C7: a table with the right header and a data row of fewer or more than 4
\* fields is refused: the run ends in the table error, names the 1-based
\* number of the first such row, and holds no mapping.
C7_RowValidation ==
    \A p \in Invocations :
      LET t == st[p].tsv
          bad == {i \in 2..Len(t) : Len(t[i]) # 4}
      IN (st[p].pc \notin {"start", "parsed", "parse_error"}
            /\ t # <<>> /\ t[1] = TsvHeader /\ bad # {})
         => /\ st[p].pc = "tsv_error"
            /\ st[p].err_row = CHOOSE i \in bad : \A j \in bad : i <= j
            /\ st[p].tsv_mapping = <<>>

(***************************************************************************)
(* Properties of the table escaping.                                       *)
(***************************************************************************)
\* C8: a text exported with escape_tsv and imported with unescape_tsv_field
\* comes back unchanged, and the exported cell holds no raw newline,
\* carriage return or tab.
C8_EscapeRoundTrip ==
    /\ esc_pc = "imported" => esc_back = esc_text
    /\ esc_pc \in {"exported", "imported"}
       => \A i \in 1..Len(esc_field) : esc_field[i] \notin {10, 13, 9}

(***************************************************************************)
(* Properties of the scanner.                                              *)
(***************************************************************************)
DataRows == SubSeq(rows, 2, Len(rows))

\* the index in out of the first accepted record with key k
FirstSeen(k) == CHOOSE i \in 1..Len(out) : out[i].key = k /\ \A j \in 1..(i - 1) : out[j].key # k

\* every accepted key has exactly one row, with the value of its first
\* accepted occurrence, flags 1 and an empty translation
OneRowPerKey ==
    /\ rows[1] = TsvHeader
    /\ {DataRows[i][1] : i \in 1..Len(DataRows)} = {out[i].key : i \in 1..Len(out)}
    /\ \A i, j \in 1..Len(DataRows) : i # j => DataRows[i][1] # DataRows[j][1]
    /\ \A i \in 1..Len(DataRows) :
         /\ DataRows[i][3] = out[FirstSeen(DataRows[i][1])].val
         /\ DataRows[i][2] = <<49>>
         /\ DataRows[i][4] = <<>>

\* C9 as stated: the rows follow the order in which the keys were first accepted
C9_FirstSeenOrder ==
    scan_pc = "done"
    => /\ OneRowPerKey
       /\ \A i, j \in 1..Len(DataRows) :
            i < j => FirstSeen(DataRows[i][1]) < FirstSeen(DataRows[j][1])

\* C9, amended: the rows are in ascending order of the key text; each
\* accepted key appears exactly once, with the value of its first accepted
\* occurrence.
C9_SortedOrder ==
    scan_pc = "done"
    => /\ OneRowPerKey
       /\ \A i, j \in 1..Len(DataRows) :
            i < j => StrLess(DataRows[i][1], DataRows[j][1])

\* "a_" accepted before "_", and "_" accepted twice with two values
C9_Witness ==
    /\ scan_pc = "done"
    /\ Len(out) = 3
    /\ out[1].key = <<97, 95>> /\ out[2].key = <<95>> /\ out[3].key = <<95>>
    /\ out[2].val # out[3].val
    /\ Len(rows) = 3
    /\ rows[2][1] = <<95>>

\* C10: every iteration moves the offset forward, by one byte when nothing
\* is accepted and to the end of the value bytes when a record is; the
\* offset never passes the end of the input, so the distance to the end
\* shrinks with every iteration and the scan ends; the accepted byte ranges
\* are disjoint and in increasing order.
C10_Stepping ==
    [][/\ (scan_pc = "scan" /\ scan_pc' = "scan")
          => /\ pos' > pos
             /\ Len(out') = Len(out) => (pos' = pos + 1 /\ ranges' = ranges)
             /\ Len(out') # Len(out)
                => /\ Len(out') = Len(out) + 1 /\ Len(ranges') = Len(ranges) + 1
                   /\ ranges'[Len(ranges')][1] = pos
                   /\ pos' = ranges'[Len(ranges')][2]
                   /\ LET L == UnpackU16(data, pos)
                          S == UnpackU16(data, pos + 2 + L)
                      IN pos' = pos + 2 + L + 2 + 2 * S
       /\ (scan_pc = "scan" /\ scan_pc' = "done") => ~(pos + 4 < Len(data))
       /\ pos' <= Len(data')
       /\ Len(ranges') = Len(out')
       /\ \A i \in 1..Len(ranges') : ranges'[i][1] < ranges'[i][2]
       /\ \A i, j \in 1..Len(ranges') : i < j => ranges'[i][2] <= ranges'[j][1]]_vars

\* two records accepted back to back after a rejected byte
C10_Witness ==
    /\ scan_pc = "done"
    /\ Len(ranges) = 2
    /\ ranges[1][1] = 1
    /\ ranges[2][1] = ranges[1][2]
    /\ ranges[2][2] = Len(data)

====
